---- MODULE Spec2Model ----
(***************************************************************************)
(* Whispers-Backend: the Flask API of src/app/routes.py over the three     *)
(* tables of src/app/models.py, with the Flask-Login session of            *)
(* src/app/__init__.py.                                                    *)
(*                                                                         *)
(* State: the three tables (users, inboxes, messages), the session cookie  *)
(* of one client, the id default of the running process (models.py:18 is   *)
(* evaluated once, when the module is imported), the requests the workers  *)
(* are handling (`pending`: each with the statement it has reached and the *)
(* rows its ORM session has loaded), the response to the last request      *)
(* answered together with the state it was answered in, and whether the    *)
(* store behind DATABASE_URL enforces foreign keys.                        *)
(*                                                                         *)
(* A handler is a sequence of steps, one per statement it sends to the     *)
(* store: every SELECT is a step of its own and reads what is committed at *)
(* that moment; the statements of one commit (BEGIN ... COMMIT) are one    *)
(* step.  The steps of requests handled by different workers interleave.   *)
(*                                                                         *)
(* Every value that travels in a request or a column is a string, as in    *)
(* the JSON bodies and String columns of the source; a Python dict is a    *)
(* function whose DOMAIN is the set of keys present.                       *)
(***************************************************************************)
EXTENDS Bags, Integers, FiniteSets, Sequences, TLC

VARIABLES users, inboxes, messages, session, default_id, pending, last, prev, foreign_keys

vars == <<users, inboxes, messages, session, default_id, pending, last, prev, foreign_keys>>

(***************************************************************************)
(* Bounds of the model.                                                    *)
(***************************************************************************)
MaxIds == 3
MaxSeedUsers == 2
MaxSeedInboxes == 2
MaxSeedMessages == 1
MaxAge == 2
MaxPending == 2

\* uuid strings: str(uuid.uuid4())
Ids == {ToString(i) : i \in 1..MaxIds}
IdsUpTo(k) == {ToString(i) : i \in 1..k}

Usernames == {"bob"}
Emails == {"a@example.com", "b@example.com"}
Passwords == {"secret", "pw"}
Names == {"work", "home"}
Salts == {"s1"}
BaseUrl == "http://base"
ClientUrls == {"http://evil/inboxes/1"}

(***************************************************************************)
(* models.py: password hashing (bcrypt).  A digest carries its salt; the   *)
(* check re-hashes the candidate with the salt of the stored digest.       *)
(***************************************************************************)
hashpw(password, salt) == [salt |-> salt, hash |-> <<salt, password>>]

\* a check that accepts every password
check_password_hash_any(digest, password) == TRUE

check_password_hash(digest, password) == hashpw(password, digest.salt) = digest

(***************************************************************************)
(* models.py: the public representations (to_dict).  Timestamps are not    *)
(* modelled.                                                               *)
(***************************************************************************)
user_to_dict(id) ==
    [id |-> id, username |-> users[id].username, email |-> users[id].email]

inbox_to_dict(id) ==
    [id |-> id, name |-> inboxes[id].name, user_id |-> inboxes[id].user_id,
     url |-> "/inboxes/" \o id]

message_to_dict(id) ==
    [id |-> id, subject |-> messages[id].subject, body |-> messages[id].body,
     read |-> messages[id].read, inbox_id |-> messages[id].inbox_id]

Msg(text) == [message |-> text]

EmptyBody == [empty |-> TRUE]

(***************************************************************************)
(* The schema of models.py as the store enforces it at commit.             *)
(***************************************************************************)
EmailUnique(U) == \A a, b \in DOMAIN U : U[a].email = U[b].email => a = b

NameUnique(I) == \A a, b \in DOMAIN I : I[a].name = I[b].name => a = b

UrlUnique(I) == \A a, b \in DOMAIN I : I[a].url = I[b].url => a = b

Null == "<NULL>"

\* a schema whose inbox columns may be left unset
InboxNullable(I) == TRUE

InboxNotNull(I) == \A a \in DOMAIN I : I[a].name # Null /\ I[a].url # Null /\ I[a].user_id # Null

InboxForeignKey(U, I) == \A a \in DOMAIN I : I[a].user_id \in DOMAIN U

MessageForeignKey(I, M) == \A a \in DOMAIN M : M[a].inbox_id \in DOMAIN I \/ M[a].inbox_id = Null

SchemaOK(U, I, M) ==
    /\ EmailUnique(U)
    /\ NameUnique(I)
    /\ UrlUnique(I)
    /\ InboxNotNull(I)
    /\ InboxForeignKey(U, I)
    /\ MessageForeignKey(I, M)

(***************************************************************************)
(* The session cookie of the client (Flask's signed cookie) and its        *)
(* resolution by Flask-Login.  The user of a request is a set: empty for   *)
(* the anonymous user, otherwise the one stored user the cookie names.     *)
(***************************************************************************)
NoCookie == [kind |-> "none"]

GarbageCookie == [kind |-> "garbage"]

SignedCookie(user_id) == [kind |-> "signed", user_id |-> user_id, age |-> 0]

\* __init__.py: load_user, a SELECT of the user by primary key
load_user(user_id) == {user_id} \cap DOMAIN users

\* current_user of a request that carries this cookie, at its first use
UserOf(cookie) == IF cookie.kind = "signed" THEN load_user(cookie.user_id) ELSE {}

current_user == UserOf(session)

\* The attributes a handler can read from current_user.  models.py: class
\* User(Base) does not derive from UserMixin: it has its columns and get_id,
\* and no is_authenticated.  Flask-Login's anonymous user has no id.
UserAttributes == {"id", "created_at", "is_active", "username", "email", "password",
                   "updated_at", "inboxes", "get_id"}

AnonymousAttributes == {"is_authenticated", "is_active", "is_anonymous", "get_id"}

HasAttr(user, attr) == IF user = {} THEN attr \in AnonymousAttributes ELSE attr \in UserAttributes

(***************************************************************************)
(* The outcome of a step of a handler: the state it leaves and either the  *)
(* response (pc = "done") or the statement the handler goes on to, with    *)
(* what its ORM session has loaded: `row` the instance the handler works   *)
(* on, `ids` and `mids` the inboxes and messages a delete cascades to,     *)
(* `todo` the inboxes whose messages are still to be loaded.               *)
(***************************************************************************)
NoRows == [k \in {} |-> ""]

Keep(status, body) ==
    [status |-> status, body |-> body, users |-> users, inboxes |-> inboxes,
     messages |-> messages, session |-> session,
     pc |-> "done", row |-> NoRows, ids |-> {}, mids |-> {}, todo |-> {}]

\* db.session.rollback() and a 500 (get_inbox: a 400) with str(e)
Rollback(status, error) == Keep(status, Msg(error))

\* routes.py, lines 446-448: the blueprint's handler for any exception that
\* leaves a view function, HTTP errors raised by abort() included.
unhandled_exception(e) == Keep(500, Msg(e))

\* the handler goes on to its next statement
Goto(pc) == [Keep(0, EmptyBody) EXCEPT !.pc = pc]

\* the handler goes on with what request p has loaded so far
Proceed(p, pc) == [Goto(pc) EXCEPT !.row = p.row, !.ids = p.ids, !.mids = p.mids, !.todo = p.todo]

Without(f, D) == [k \in DOMAIN f \ D |-> f[k]]

With(f, k, v) == [x \in DOMAIN f \cup {k} |-> IF x = k THEN v ELSE f[x]]

\* `"k" not in data or not data["k"]`, `not request.form.get("k")`
Blank(data, k) == k \notin DOMAIN data \/ data[k] = ""

\* User.query.filter_by(email=...).first()
UsersByEmail(email) == {u \in DOMAIN users : users[u].email = email}

\* The UPDATE of a commit sets the columns whose value differs from the one
\* the session loaded, in the row as it is stored now.
Changed(loaded, new, cur) == [c \in DOMAIN cur |-> IF new[c] # loaded[c] THEN new[c] ELSE cur[c]]

(***************************************************************************)
(* models.py: User() and User.from_dict; set_password draws a salt.        *)
(***************************************************************************)
NewUser == [username |-> Null, email |-> Null, password |-> hashpw(Null, Null), is_active |-> TRUE]

user_from_dict(row, data, salt) ==
    [username |-> IF "username" \in DOMAIN data THEN data.username ELSE row.username,
     email |-> IF "email" \in DOMAIN data THEN data.email ELSE row.email,
     password |-> IF "password" \in DOMAIN data THEN hashpw(data.password, salt) ELSE row.password,
     is_active |-> row.is_active]

(***************************************************************************)
(* routes.py: the user routes.                                             *)
(***************************************************************************)
get_user(user_id) ==
    IF user_id \notin DOMAIN users THEN Keep(404, Msg("User not found"))
    ELSE Keep(200, user_to_dict(user_id))

\* create_user, lines 72-80: the checks that precede the insert, the SELECT
\* by email the last of them
create_user(data) ==
    IF Blank(data, "username") THEN Keep(400, Msg("Username is required"))
    ELSE IF Blank(data, "email") THEN Keep(400, Msg("Email is required"))
    ELSE IF Blank(data, "password") THEN Keep(400, Msg("Password is required"))
    ELSE IF UsersByEmail(data.email) # {} THEN Keep(400, Msg("Email already exists"))
    ELSE Goto("insert")

\* create_user, lines 81-88 (register, lines 368-372): from_dict, add, commit.
\* The INSERT carries the id default of the process that built the row; the
\* store rejects a second primary key and a second email (IntegrityError).
insert_user(id, data, salt) ==
    LET row == user_from_dict(NewUser, data, salt) IN
    IF id \in DOMAIN users \/ UsersByEmail(row.email) # {}
    THEN Rollback(500, "IntegrityError")
    ELSE [Goto("to_dict") EXCEPT !.users = With(users, id, row)]

\* create_user, line 89: the commit expired the instance, so user.to_dict()
\* reads the row again; it is outside the try, so the error of a row that is
\* gone reaches the blueprint's handler.
create_user_to_dict(id) ==
    IF id \notin DOMAIN users THEN unhandled_exception("ObjectDeletedError")
    ELSE Keep(201, user_to_dict(id))

\* update_user, lines 103-113: the checks of the body and the SELECT by id
update_user(user_id, data) ==
    IF Blank(data, "username") THEN Keep(400, Msg("Username is required"))
    ELSE IF Blank(data, "email") THEN Keep(400, Msg("Email is required"))
    ELSE IF Blank(data, "password") THEN Keep(400, Msg("Password is required"))
    ELSE IF user_id \notin DOMAIN users THEN Keep(404, Msg("User not found"))
    ELSE [Goto("email") EXCEPT !.row = users[user_id]]

\* update_user, lines 114-115: the SELECT by email
update_user_email(p) ==
    IF UsersByEmail(p.data.email) # {} THEN Keep(400, Msg("Email already exists"))
    ELSE Proceed(p, "update")

\* update_user, lines 116-117: from_dict and commit.  The UPDATE addresses
\* the row by its primary key: no row is a StaleDataError, a second email an
\* IntegrityError.  set_password always makes a new digest.
update_user_commit(p, salt) ==
    IF p.id \notin DOMAIN users THEN Rollback(500, "StaleDataError")
    ELSE LET new == user_from_dict(p.row, p.data, salt)
             row == [Changed(p.row, new, users[p.id]) EXCEPT !.password = new.password]
             U == With(users, p.id, row)
         IN  IF ~EmailUnique(U) THEN Rollback(500, "IntegrityError")
             ELSE [Proceed(p, "to_dict") EXCEPT !.users = U]

\* update_user, line 118: user.to_dict() reads the row again, inside the try
update_user_to_dict(p) ==
    IF p.id \notin DOMAIN users THEN Rollback(500, "ObjectDeletedError")
    ELSE Keep(200, user_to_dict(p.id))

\* models.py: cascade="all, delete-orphan" on User.inboxes and Inbox.messages
InboxesOf(user_id) == {i \in DOMAIN inboxes : inboxes[i].user_id = user_id}

MessagesOf(inbox_id) == {m \in DOMAIN messages : messages[m].inbox_id = inbox_id}

\* delete_user, lines 136-138: the SELECT by id
delete_user(user_id) ==
    IF user_id \notin DOMAIN users THEN Keep(404, Msg("User not found"))
    ELSE Goto("inboxes")

\* delete_user, line 139: db.session.delete(user) loads the inboxes the
\* delete cascades to
delete_user_inboxes(p) ==
    LET I == InboxesOf(p.id) IN
    [Goto(IF I = {} THEN "delete" ELSE "messages") EXCEPT !.ids = I, !.todo = I]

\* delete_user, line 139: the cascade loads the messages of loaded inbox i
delete_user_messages(p, i) ==
    [Goto(IF p.todo = {i} THEN "delete" ELSE "messages") EXCEPT
        !.ids = p.ids, !.mids = p.mids \cup MessagesOf(i), !.todo = p.todo \ {i}]

\* The commit of a delete (delete_user, line 140; delete_inbox, line 283):
\* DELETE by primary key of the messages, the inboxes and the users the
\* session has loaded; a row that is already gone is no error.  A store that
\* enforces foreign keys refuses to delete a row another row refers to.
delete_rows(U, I, M) ==
    LET users2 == Without(users, U)
        inboxes2 == Without(inboxes, I)
        messages2 == Without(messages, M)
    IN  IF /\ foreign_keys
           /\ \/ \E m \in DOMAIN messages2 : messages2[m].inbox_id \in I \cap DOMAIN inboxes
              \/ \E i \in DOMAIN inboxes2 : inboxes2[i].user_id \in U \cap DOMAIN users
        THEN Rollback(500, "IntegrityError")
        ELSE [Keep(204, EmptyBody) EXCEPT
                !.users = users2, !.inboxes = inboxes2, !.messages = messages2]

\* get_inboxes, line 159: the SELECT by id; user.inboxes on a missing user
\* (None) raises, and the handler answers 400 with the error text.
get_inboxes(user_id) ==
    IF user_id \notin DOMAIN users THEN Keep(400, Msg("AttributeError"))
    ELSE Goto("inboxes")

\* get_inboxes, line 160: user.inboxes is loaded when it is read
get_inboxes_load(p) == Keep(200, [items |-> {inbox_to_dict(i) : i \in InboxesOf(p.id)}])

(***************************************************************************)
(* models.py: Inbox() and Inbox.from_dict; routes.py: the inbox routes.    *)
(***************************************************************************)
NewInbox == [name |-> Null, user_id |-> Null, url |-> Null]

inbox_from_dict(row, data) ==
    [name |-> IF "name" \in DOMAIN data THEN data.name ELSE row.name,
     user_id |-> IF "user_id" \in DOMAIN data THEN data.user_id ELSE row.user_id,
     url |-> IF "url" \in DOMAIN data THEN data.url ELSE row.url]

InboxDictOf(id, row) == [id |-> id, name |-> row.name, user_id |-> row.user_id, url |-> "/inboxes/" \o id]

DerivedUrl(id) == BaseUrl \o "/inboxes/" \o id

\* db.session.commit() of a change to the inboxes table: the store checks the
\* constraints the schema declares.  UNIQUE and NOT NULL are checked by every
\* store; the foreign key is checked by the stores that enforce foreign keys
\* (config.py takes the store from DATABASE_URL; SQLite checks them only
\* under a pragma the source does not set).
InboxCommitOK(I) ==
    /\ NameUnique(I)
    /\ UrlUnique(I)
    /\ InboxNotNull(I)
    /\ (foreign_keys => InboxForeignKey(users, I))

\* create_inbox, lines 181-187: data["name"] and the SELECT of the user
create_inbox(user_id, data) ==
    IF "name" \notin DOMAIN data THEN unhandled_exception("KeyError")
    ELSE IF data.name = "" THEN Keep(400, Msg("Name is required"))
    ELSE IF user_id \notin DOMAIN users THEN Keep(404, Msg("User not found"))
    ELSE Goto("inboxes")

\* create_inbox without the check of the user's inbox names
create_inbox_names_unchecked(p) == Goto("insert")

\* create_inbox, lines 188-189: user.inboxes is loaded when it is read
create_inbox_names(p) ==
    IF p.data.name \in {inboxes[i].name : i \in InboxesOf(p.id)}
    THEN Keep(400, Msg("Inbox already exists"))
    ELSE Goto("insert")

\* create_inbox, lines 190-199: two commits.  The first inserts the row with
\* only user_id set; the second stores name and url.  The first is refused
\* by every store (name and url are NOT NULL), so the handler sends no
\* statement after it and the two are one step; the second is computed to
\* show what it would store.
create_inbox_insert(id, user_id, data) ==
    LET first == With(inboxes, id, [NewInbox EXCEPT !.user_id = user_id])
        data2 == With(With(data, "user_id", user_id), "url", DerivedUrl(id))
        row == inbox_from_dict(first[id], data2)
        second == With(first, id, row)
    IN  IF id \in DOMAIN inboxes \/ ~InboxCommitOK(first)
        THEN Rollback(500, "IntegrityError")
        ELSE IF ~InboxCommitOK(second)
        THEN [Rollback(500, "IntegrityError") EXCEPT !.inboxes = first]
        ELSE [Keep(201, InboxDictOf(id, row)) EXCEPT !.inboxes = second]

\* get_inbox, lines 220-222: the SELECT of the inbox
get_inbox(inbox_id) ==
    IF inbox_id \notin DOMAIN inboxes THEN Keep(404, Msg("Inbox not found"))
    ELSE [Goto("user") EXCEPT !.row = inboxes[inbox_id]]

\* get_inbox, lines 223-225: current_user.id loads the user of the cookie;
\* the inbox is answered as it was loaded.
get_inbox_user(p) ==
    IF ~HasAttr(UserOf(p.cookie), "id") THEN Keep(400, Msg("AttributeError"))
    ELSE IF {p.row.user_id} # UserOf(p.cookie) THEN Keep(401, Msg("Unauthorized"))
    ELSE Keep(200, InboxDictOf(p.id, p.row))

\* update_inbox, lines 245-251: the check of the body and the SELECT
update_inbox(inbox_id, data) ==
    IF Blank(data, "name") THEN Keep(400, Msg("Name is required"))
    ELSE IF inbox_id \notin DOMAIN inboxes THEN Keep(404, Msg("Inbox not found"))
    ELSE [Goto("user") EXCEPT !.row = inboxes[inbox_id]]

\* update_inbox, lines 252-253 (delete_inbox, lines 280-281)
owner_check(p, pc) ==
    IF ~HasAttr(UserOf(p.cookie), "id") THEN Rollback(500, "AttributeError")
    ELSE IF {p.row.user_id} # UserOf(p.cookie) THEN Keep(401, Msg("Unauthorized"))
    ELSE Proceed(p, pc)

\* update_inbox, lines 254-255: from_dict and commit; a from_dict that
\* changes no column sends no UPDATE.
update_inbox_commit(p) ==
    LET new == inbox_from_dict(p.row, p.data) IN
    IF new = p.row THEN Proceed(p, "to_dict")
    ELSE IF p.id \notin DOMAIN inboxes THEN Rollback(500, "StaleDataError")
    ELSE LET I == With(inboxes, p.id, Changed(p.row, new, inboxes[p.id])) IN
         IF ~InboxCommitOK(I) THEN Rollback(500, "IntegrityError")
         ELSE [Proceed(p, "to_dict") EXCEPT !.inboxes = I]

\* update_inbox, line 256: inbox.to_dict() reads the row again
update_inbox_to_dict(p) ==
    IF p.id \notin DOMAIN inboxes THEN Rollback(500, "ObjectDeletedError")
    ELSE Keep(200, inbox_to_dict(p.id))

\* delete_inbox, lines 277-279: the SELECT of the inbox
delete_inbox(inbox_id) ==
    IF inbox_id \notin DOMAIN inboxes THEN Keep(404, Msg("Inbox not found"))
    ELSE [Goto("user") EXCEPT !.row = inboxes[inbox_id]]

\* delete_inbox, line 282: db.session.delete(inbox) loads the messages the
\* delete cascades to
delete_inbox_messages(p) == [Proceed(p, "delete") EXCEPT !.mids = MessagesOf(p.id)]

\* get_messages, lines 304-306: request.headers.get("User-Id") is a str or
\* None; neither has a get method, so data.get("user_id") raises once the
\* inbox has been selected, before it is looked at.  The blueprint's handler
\* for Exception answers 500.
HeaderValues == {"<None>"} \cup Ids

HasGet(header) == header \notin HeaderValues

get_messages(inbox_id, header) ==
    IF ~HasGet(header) THEN unhandled_exception("AttributeError")
    ELSE IF inbox_id \notin DOMAIN inboxes THEN Keep(404, Msg("Inbox not found"))
    ELSE IF inboxes[inbox_id].user_id # header THEN Keep(401, Msg("Unauthorized"))
    ELSE Keep(200, [items |-> {message_to_dict(m) : m \in MessagesOf(inbox_id)}])

(***************************************************************************)
(* models.py: Message() and Message.from_dict; routes.py: create_message.  *)
(***************************************************************************)
NewMessage == [subject |-> Null, body |-> Null, read |-> FALSE, inbox_id |-> Null]

message_from_dict(row, data) ==
    [subject |-> IF "subject" \in DOMAIN data THEN data.subject ELSE row.subject,
     body |-> IF "body" \in DOMAIN data THEN data.body ELSE row.body,
     read |-> IF "read" \in DOMAIN data THEN data.read ELSE row.read,
     inbox_id |-> IF "inbox_id" \in DOMAIN data THEN data.inbox_id ELSE row.inbox_id]

\* create_message, lines 326-329: the SELECT of the inbox
create_message(inbox_id) ==
    IF inbox_id \notin DOMAIN inboxes THEN Keep(404, Msg("Inbox not found"))
    ELSE Goto("messages")

\* create_message, lines 330-332: inbox.messages.append(message) loads the
\* messages of the inbox, a SELECT by inbox_id; the rows it returns are
\* neither looked at nor written back.
create_message_load(p) == Proceed(p, "insert")

\* create_message, lines 333-334: the commit inserts the row, its inbox_id
\* set by the append to the id of the inbox the handler loaded.  A store
\* that enforces foreign keys refuses a row whose inbox is gone.
create_message_insert(id, inbox_id, data) ==
    LET row == [message_from_dict(NewMessage, data) EXCEPT !.inbox_id = inbox_id] IN
    IF id \in DOMAIN messages \/ (foreign_keys /\ inbox_id \notin DOMAIN inboxes)
    THEN Rollback(500, "IntegrityError")
    ELSE [Goto("to_dict") EXCEPT !.messages = With(messages, id, row)]

\* create_message, line 335: message.to_dict() reads the row again
create_message_to_dict(id) ==
    IF id \notin DOMAIN messages THEN Rollback(500, "ObjectDeletedError")
    ELSE Keep(201, message_to_dict(id))

(***************************************************************************)
(* routes.py: the authentication routes.                                   *)
(***************************************************************************)
\* register, line 356: current_user.is_authenticated loads the user of the
\* cookie
register(method, cookie) ==
    IF ~HasAttr(UserOf(cookie), "is_authenticated") THEN unhandled_exception("AttributeError")
    ELSE IF method # "POST" THEN Keep(200, Msg("Register"))
    ELSE Goto("select")

\* register, lines 360-367: the checks of the form, the SELECT by email the
\* last of them
register_select(form) ==
    IF Blank(form, "email") THEN Keep(400, Msg("Email is required"))
    ELSE IF Blank(form, "password") THEN Keep(400, Msg("Password is required"))
    ELSE IF Blank(form, "username") THEN Keep(400, Msg("Username is required"))
    ELSE IF UsersByEmail(form.email) # {} THEN Keep(400, Msg("Email already exists"))
    ELSE Goto("insert")

\* register, line 373: user.to_dict() reads the row again, inside the try
register_to_dict(id) ==
    IF id \notin DOMAIN users THEN Rollback(500, "ObjectDeletedError")
    ELSE Keep(201, user_to_dict(id))

\* login_user(user, duration=timedelta(days=1)): remember is not set, so
\* Flask-Login stores the user id in the session cookie and does not use the
\* duration; an inactive user gets no session.
login_user(user_id) ==
    IF ~users[user_id].is_active THEN session ELSE SignedCookie(user_id)

\* login: one SELECT by email; nothing is read from the store after it
login(form) ==
    IF Blank(form, "email") THEN Keep(400, Msg("Email is required"))
    ELSE IF Blank(form, "password") THEN Keep(400, Msg("Password is required"))
    ELSE IF \A u \in UsersByEmail(form.email) : ~check_password_hash(users[u].password, form.password)
    THEN Keep(400, Msg("Invalid credentials"))
    ELSE LET u == CHOOSE u \in UsersByEmail(form.email) : TRUE IN
         [Keep(200, user_to_dict(u)) EXCEPT !.session = login_user(u)]

\* logout_user(): pops the user id from the session; the emptied session
\* deletes the cookie.  A cookie that did not load is left as it is.
logout_user == IF session.kind = "signed" THEN NoCookie ELSE session

logout == [Keep(200, Msg("Logout")) EXCEPT !.session = logout_user]

\* account: @login_required reads current_user.is_authenticated; for the
\* anonymous user it aborts with 401.  Both the AttributeError and the
\* abort reach the blueprint's handler for Exception.
account ==
    IF ~HasAttr(current_user, "is_authenticated") THEN unhandled_exception("AttributeError")
    ELSE IF current_user = {} THEN unhandled_exception("401 Unauthorized")
    ELSE Keep(200, user_to_dict(CHOOSE u \in current_user : TRUE))

(***************************************************************************)
(* The requests a client can send: JSON bodies and forms as dicts.  Each   *)
(* set holds the well-formed bodies and, for every key, a body without the *)
(* key and a body with the key empty.                                      *)
(***************************************************************************)
Malformed(valid, keys) ==
    {Without(b, {k}) : b \in valid, k \in keys} \cup {With(b, k, "") : b \in valid, k \in keys}

ValidUserBodies == [username : Usernames, email : Emails, password : {"pw"}]

UserBodies == ValidUserBodies \cup Malformed(ValidUserBodies, {"username", "email", "password"})

ValidLoginForms == [email : Emails, password : Passwords]

LoginForms == ValidLoginForms \cup Malformed(ValidLoginForms, {"email", "password"})

ValidInboxBodies == [name : Names]

InboxBodies == ValidInboxBodies \cup Malformed(ValidInboxBodies, {"name"})

\* a body may also carry user_id and url, which Inbox.from_dict reads
OwnerBodies ==
    ValidInboxBodies
    \cup {[name |-> "home", user_id |-> "2"]}
    \cup {[name |-> "home", url |-> u] : u \in ClientUrls}

MessageBodies ==
    {[subject |-> "hi", body |-> "text"]}
    \cup {[subject |-> "hi", body |-> "text", inbox_id |-> "1"]}

(***************************************************************************)
(* Initial states: the process has just been started (create_app) against  *)
(* a database that satisfies the schema of models.py; its id default is a  *)
(* fresh uuid; the client holds no cookie; no request is being handled.    *)
(***************************************************************************)
\* the seeded rows: user 1 and user 2 with an email each, inbox 1 and
\* inbox 2 with a name each
SeedEmail(i) == IF i = "1" THEN "a@example.com" ELSE "b@example.com"

SeedName(i) == IF i = "1" THEN "work" ELSE "home"

SeedUsers ==
    UNION {{U \in [IdsUpTo(k) -> [username : Usernames, email : Emails,
                                  password : {hashpw("secret", s) : s \in Salts},
                                  is_active : {TRUE}]] :
                /\ \A u \in DOMAIN U : U[u].email = SeedEmail(u)
                /\ EmailUnique(U)}
           : k \in 0..MaxSeedUsers}

SeedInboxes(U) ==
    UNION {{I \in [IdsUpTo(k) -> [name : Names, user_id : DOMAIN U,
                                  url : {DerivedUrl(i) : i \in IdsUpTo(k)}]] :
                /\ \A i \in DOMAIN I : I[i].url = DerivedUrl(i) /\ I[i].name = SeedName(i)
                /\ NameUnique(I)}
           : k \in 0..MaxSeedInboxes}

SeedMessages(I) ==
    UNION {[IdsUpTo(k) -> [subject : {"hi"}, body : {"text"}, read : {FALSE},
                           inbox_id : DOMAIN I]]
           : k \in 0..MaxSeedMessages}

UsedIds == DOMAIN users \cup DOMAIN inboxes \cup DOMAIN messages

Store == [users |-> users, inboxes |-> inboxes, messages |-> messages, session |-> session]

\* no request is being answered
NoResponse ==
    [op |-> "idle", id |-> "", status |-> 0, body |-> EmptyBody, data |-> NoRows,
     cookie |-> NoCookie, pc |-> ""]

NoStore == [users |-> NoRows, inboxes |-> NoRows, messages |-> NoRows, session |-> NoCookie]

Init ==
    /\ users \in SeedUsers
    /\ inboxes \in SeedInboxes(users)
    /\ messages \in SeedMessages(inboxes)
    /\ SchemaOK(users, inboxes, messages)
    /\ default_id \in Ids \ UsedIds
    /\ foreign_keys \in BOOLEAN
    /\ session = NoCookie
    /\ pending = EmptyBag
    /\ last = NoResponse
    /\ prev = NoStore

(***************************************************************************)
(* Requests and their steps.  `pending` is the bag of the requests the     *)
(* MaxPending workers are handling.  A request to a route that uses the    *)
(* session is kept with the cookie it was sent with, a request to a route  *)
(* that inserts a row with the id default of the process that handles it.  *)
(* A step that answers leaves the response in `last` and the state it was  *)
(* taken in in `prev`; the client then takes the response (Ack).           *)
(***************************************************************************)
\* the routes that use the session cookie of the request, and the routes that
\* insert a row
ReadsUser == {"get_inbox", "update_inbox", "delete_inbox", "register", "login", "logout", "account"}

Inserts == {"create_user", "register", "create_inbox", "create_message"}

Pending == BagToSet(pending)

Request(op, id, data) ==
    [op |-> op, id |-> id, data |-> data,
     cookie |-> IF op \in ReadsUser THEN session ELSE NoCookie,
     pid |-> IF op \in Inserts THEN default_id ELSE "",
     pc |-> "start", row |-> NoRows, ids |-> {}, mids |-> {}, todo |-> {}]

\* request p takes a step with outcome r: it is answered, or it goes on
Step(p, r) ==
    /\ last = NoResponse
    /\ users' = r.users
    /\ inboxes' = r.inboxes
    /\ messages' = r.messages
    /\ session' = r.session
    /\ IF r.pc = "done"
       THEN /\ last' = [op |-> p.op, id |-> p.id, status |-> r.status, body |-> r.body,
                        data |-> p.data, cookie |-> p.cookie, pc |-> p.pc]
            /\ prev' = Store
            /\ pending' = pending (-) SetToBag({p})
       ELSE /\ pending' = (pending (-) SetToBag({p})) (+)
                            SetToBag({[p EXCEPT !.pc = r.pc, !.row = r.row, !.ids = r.ids,
                                                !.mids = r.mids, !.todo = r.todo]})
            /\ UNCHANGED <<last, prev>>
    /\ UNCHANGED <<default_id, foreign_keys>>

\* the first step of a request: a worker is free to take it
Start(op, id, data, r) == BagCardinality(pending) < MaxPending /\ Step(Request(op, id, data), r)

\* request p of this route has reached this statement
At(p, op, pc) == BagIn(p, pending) /\ p.op = op /\ p.pc = pc

Ack ==
    /\ last # NoResponse
    /\ last' = NoResponse
    /\ prev' = NoStore
    /\ UNCHANGED <<users, inboxes, messages, session, default_id, pending, foreign_keys>>

GetUser(user_id) == Start("get_user", user_id, EmptyBody, get_user(user_id))

CreateUser(data) == Start("create_user", "", data, create_user(data))

CreateUserInsert(p, salt) == At(p, "create_user", "insert") /\ Step(p, insert_user(p.pid, p.data, salt))

CreateUserToDict(p) == At(p, "create_user", "to_dict") /\ Step(p, create_user_to_dict(p.pid))

UpdateUser(user_id, data) == Start("update_user", user_id, data, update_user(user_id, data))

UpdateUserEmail(p) == At(p, "update_user", "email") /\ Step(p, update_user_email(p))

UpdateUserCommit(p, salt) == At(p, "update_user", "update") /\ Step(p, update_user_commit(p, salt))

UpdateUserToDict(p) == At(p, "update_user", "to_dict") /\ Step(p, update_user_to_dict(p))

DeleteUser(user_id) == Start("delete_user", user_id, EmptyBody, delete_user(user_id))

DeleteUserInboxes(p) == At(p, "delete_user", "inboxes") /\ Step(p, delete_user_inboxes(p))

DeleteUserMessages(p, i) ==
    At(p, "delete_user", "messages") /\ i \in p.todo /\ Step(p, delete_user_messages(p, i))

DeleteUserCommit(p) == At(p, "delete_user", "delete") /\ Step(p, delete_rows({p.id}, p.ids, p.mids))

GetInboxes(user_id) == Start("get_inboxes", user_id, EmptyBody, get_inboxes(user_id))

GetInboxesLoad(p) == At(p, "get_inboxes", "inboxes") /\ Step(p, get_inboxes_load(p))

CreateInbox(user_id, data) == Start("create_inbox", user_id, data, create_inbox(user_id, data))

CreateInboxNames(p) == At(p, "create_inbox", "inboxes") /\ Step(p, create_inbox_names(p))

CreateInboxInsert(p) ==
    At(p, "create_inbox", "insert") /\ Step(p, create_inbox_insert(p.pid, p.id, p.data))

GetInbox(inbox_id) == Start("get_inbox", inbox_id, EmptyBody, get_inbox(inbox_id))

GetInboxUser(p) == At(p, "get_inbox", "user") /\ Step(p, get_inbox_user(p))

UpdateInbox(inbox_id, data) == Start("update_inbox", inbox_id, data, update_inbox(inbox_id, data))

UpdateInboxUser(p) == At(p, "update_inbox", "user") /\ Step(p, owner_check(p, "update"))

UpdateInboxCommit(p) == At(p, "update_inbox", "update") /\ Step(p, update_inbox_commit(p))

UpdateInboxToDict(p) == At(p, "update_inbox", "to_dict") /\ Step(p, update_inbox_to_dict(p))

DeleteInbox(inbox_id) == Start("delete_inbox", inbox_id, EmptyBody, delete_inbox(inbox_id))

DeleteInboxUser(p) == At(p, "delete_inbox", "user") /\ Step(p, owner_check(p, "messages"))

DeleteInboxMessages(p) == At(p, "delete_inbox", "messages") /\ Step(p, delete_inbox_messages(p))

DeleteInboxCommit(p) == At(p, "delete_inbox", "delete") /\ Step(p, delete_rows({}, {p.id}, p.mids))

GetMessages(inbox_id, header) ==
    Start("get_messages", inbox_id, EmptyBody, get_messages(inbox_id, header))

CreateMessage(inbox_id, data) == Start("create_message", inbox_id, data, create_message(inbox_id))

CreateMessageLoad(p) == At(p, "create_message", "messages") /\ Step(p, create_message_load(p))

CreateMessageInsert(p) ==
    At(p, "create_message", "insert") /\ Step(p, create_message_insert(p.pid, p.id, p.data))

CreateMessageToDict(p) == At(p, "create_message", "to_dict") /\ Step(p, create_message_to_dict(p.pid))

Register(method, form) == Start("register", "", form, register(method, session))

RegisterSelect(p) == At(p, "register", "select") /\ Step(p, register_select(p.data))

RegisterInsert(p, salt) == At(p, "register", "insert") /\ Step(p, insert_user(p.pid, p.data, salt))

RegisterToDict(p) == At(p, "register", "to_dict") /\ Step(p, register_to_dict(p.pid))

Login(form) == Start("login", "", form, login(form))

Logout == Start("logout", "", EmptyBody, logout)

Account == Start("account", "", EmptyBody, account)

(***************************************************************************)
(* The environment: time passes, the client sends a cookie that does not   *)
(* verify, the process is started again (a new id default, models.py:18).  *)
(***************************************************************************)
Tick ==
    /\ last = NoResponse
    /\ session.kind = "signed"
    /\ session.age < MaxAge
    /\ session' = [session EXCEPT !.age = @ + 1]
    /\ UNCHANGED <<users, inboxes, messages, default_id, pending, last, prev, foreign_keys>>

Tamper ==
    /\ last = NoResponse
    /\ session' = GarbageCookie
    /\ UNCHANGED <<users, inboxes, messages, default_id, pending, last, prev, foreign_keys>>

Restart ==
    /\ last = NoResponse
    /\ default_id' \in Ids \ (UsedIds \cup {default_id})
    /\ UNCHANGED <<users, inboxes, messages, session, pending, last, prev, foreign_keys>>

(***************************************************************************)
(* The steps of each route, for the bodies a specification sends.          *)
(***************************************************************************)
CreateUserSteps(bodies) ==
    \/ \E data \in bodies : CreateUser(data)
    \/ \E p \in Pending, salt \in Salts : CreateUserInsert(p, salt)
    \/ \E p \in Pending : CreateUserToDict(p)

UpdateUserSteps(bodies) ==
    \/ \E user_id \in Ids, data \in bodies : UpdateUser(user_id, data)
    \/ \E p \in Pending : UpdateUserEmail(p)
    \/ \E p \in Pending, salt \in Salts : UpdateUserCommit(p, salt)
    \/ \E p \in Pending : UpdateUserToDict(p)

DeleteUserSteps ==
    \/ \E user_id \in Ids : DeleteUser(user_id)
    \/ \E p \in Pending : DeleteUserInboxes(p)
    \/ \E p \in Pending, i \in Ids : DeleteUserMessages(p, i)
    \/ \E p \in Pending : DeleteUserCommit(p)

GetInboxesSteps ==
    \/ \E user_id \in Ids : GetInboxes(user_id)
    \/ \E p \in Pending : GetInboxesLoad(p)

CreateInboxSteps(bodies) ==
    \/ \E user_id \in Ids, data \in bodies : CreateInbox(user_id, data)
    \/ \E p \in Pending : CreateInboxNames(p)
    \/ \E p \in Pending : CreateInboxInsert(p)

GetInboxSteps ==
    \/ \E inbox_id \in Ids : GetInbox(inbox_id)
    \/ \E p \in Pending : GetInboxUser(p)

UpdateInboxSteps(bodies) ==
    \/ \E inbox_id \in Ids, data \in bodies : UpdateInbox(inbox_id, data)
    \/ \E p \in Pending : UpdateInboxUser(p)
    \/ \E p \in Pending : UpdateInboxCommit(p)
    \/ \E p \in Pending : UpdateInboxToDict(p)

DeleteInboxSteps ==
    \/ \E inbox_id \in Ids : DeleteInbox(inbox_id)
    \/ \E p \in Pending : DeleteInboxUser(p)
    \/ \E p \in Pending : DeleteInboxMessages(p)
    \/ \E p \in Pending : DeleteInboxCommit(p)

CreateMessageSteps ==
    \/ \E inbox_id \in Ids, data \in MessageBodies : CreateMessage(inbox_id, data)
    \/ \E p \in Pending : CreateMessageLoad(p)
    \/ \E p \in Pending : CreateMessageInsert(p)
    \/ \E p \in Pending : CreateMessageToDict(p)

RegisterSteps(forms) ==
    \/ \E form \in forms : Register("POST", form)
    \/ Register("GET", NoRows)
    \/ \E p \in Pending : RegisterSelect(p)
    \/ \E p \in Pending, salt \in Salts : RegisterInsert(p, salt)
    \/ \E p \in Pending : RegisterToDict(p)

Next ==
    \/ \E user_id \in Ids : GetUser(user_id)
    \/ CreateUserSteps(UserBodies)
    \/ UpdateUserSteps(UserBodies)
    \/ DeleteUserSteps
    \/ GetInboxesSteps
    \/ CreateInboxSteps(InboxBodies \cup OwnerBodies)
    \/ GetInboxSteps
    \/ UpdateInboxSteps(InboxBodies \cup OwnerBodies)
    \/ DeleteInboxSteps
    \/ \E inbox_id \in Ids, header \in HeaderValues : GetMessages(inbox_id, header)
    \/ CreateMessageSteps
    \/ RegisterSteps(UserBodies)
    \/ \E form \in LoginForms : Login(form)
    \/ Logout
    \/ Account
    \/ Ack
    \/ Tick
    \/ Tamper
    \/ Restart

Spec == Init /\ [][Next]_vars

(***************************************************************************)
(* Concurrent user creation: create_user and register, whose existence     *)
(* check and commit are separate statements.                               *)
(***************************************************************************)
NextConc ==
    \/ CreateUserSteps(ValidUserBodies)
    \/ RegisterSteps(ValidUserBodies)
    \/ DeleteUserSteps
    \/ Ack
    \/ Restart

SpecConc == Init /\ [][NextConc]_vars

(***************************************************************************)
(* The user routes.                                                        *)
(***************************************************************************)
NextUsers ==
    \/ \E user_id \in Ids : GetUser(user_id)
    \/ CreateUserSteps(ValidUserBodies)
    \/ UpdateUserSteps(ValidUserBodies)
    \/ DeleteUserSteps
    \/ GetInboxesSteps
    \/ Ack

SpecUsers == Init /\ [][NextUsers]_vars

(***************************************************************************)
(* The cascade: a user is deleted while messages are created.              *)
(***************************************************************************)
NextCascade ==
    \/ DeleteUserSteps
    \/ CreateMessageSteps
    \/ Ack

SpecCascade == Init /\ [][NextCascade]_vars

(***************************************************************************)
(* The inboxes of a user: created, renamed by their owner, and deleted     *)
(* with the user.                                                          *)
(***************************************************************************)
NextInbox ==
    \/ \E form \in ValidLoginForms : Login(form)
    \/ CreateInboxSteps(InboxBodies)
    \/ UpdateInboxSteps(ValidInboxBodies)
    \/ DeleteUserSteps
    \/ Ack

SpecInbox == Init /\ [][NextInbox]_vars

(***************************************************************************)
(* The session over time: the routes that issue, resolve and end a         *)
(* session, with the clock.                                                *)
(***************************************************************************)
NextClock ==
    \/ \E form \in LoginForms : Login(form)
    \/ Logout
    \/ Account
    \/ DeleteUserSteps
    \/ Ack
    \/ Tick
    \/ Tamper

SpecClock == Init /\ [][NextClock]_vars

(***************************************************************************)
(* The owner-only routes and the routes that ask who the caller is, while  *)
(* users are deleted.                                                      *)
(***************************************************************************)
NextAccess ==
    \/ \E form \in ValidLoginForms : Login(form)
    \/ GetInboxSteps
    \/ DeleteInboxSteps
    \/ DeleteUserSteps
    \/ \E inbox_id \in Ids, header \in HeaderValues : GetMessages(inbox_id, header)
    \/ Account
    \/ Ack
    \/ Tamper

SpecAccess == Init /\ [][NextAccess]_vars

(***************************************************************************)
(* The owner's routes: a client logs in and renames, rewrites or deletes   *)
(* inboxes; update_inbox is sent every key Inbox.from_dict reads.          *)
(***************************************************************************)
NextRewrite ==
    \/ \E form \in ValidLoginForms : Login(form)
    \/ UpdateInboxSteps(OwnerBodies)
    \/ Ack

SpecRewrite == Init /\ [][NextRewrite]_vars

NextOwner ==
    \/ \E form \in ValidLoginForms : Login(form)
    \/ DeleteInboxSteps
    \/ CreateMessageSteps
    \/ Ack

SpecOwner == Init /\ [][NextOwner]_vars

(***************************************************************************)
(* The routes that write: every route with a commit (register included),   *)
(* and login, each sent one well-formed body.                              *)
(***************************************************************************)
NextWrite ==
    \/ CreateUserSteps({b \in ValidUserBodies : b.email = "b@example.com"})
    \/ UpdateUserSteps({b \in ValidUserBodies : b.email = "b@example.com"})
    \/ DeleteUserSteps
    \/ CreateInboxSteps({b \in ValidInboxBodies : b.name = "home"})
    \/ UpdateInboxSteps({b \in ValidInboxBodies : b.name = "home"})
    \/ DeleteInboxSteps
    \/ \E inbox_id \in Ids, data \in {b \in MessageBodies : DOMAIN b = {"subject", "body"}} :
          CreateMessage(inbox_id, data)
    \/ \E p \in Pending : CreateMessageLoad(p)
    \/ \E p \in Pending : CreateMessageInsert(p)
    \/ \E p \in Pending : CreateMessageToDict(p)
    \/ RegisterSteps({b \in ValidUserBodies : b.email = "b@example.com"})
    \/ \E form \in {f \in ValidLoginForms : f.email = "a@example.com" /\ f.password = "secret"} :
          Login(form)
    \/ Ack

SpecWrite == Init /\ [][NextWrite]_vars

(***************************************************************************)
(* Properties.  In a step that answers a request, `last'` is the response  *)
(* with the request it answers, and the unprimed variables are the state   *)
(* the answering statement ran in.                                         *)
(***************************************************************************)
\* routes.py:402: login_user(user, duration=timedelta(days=1)); the clock of
\* the model counts days.
LoginDuration == 1

StoreUnchanged == users' = users /\ inboxes' = inboxes /\ messages' = messages

\* the cookie resolves to a stored user who does not own stored inbox i
CrossUser(cookie, i) ==
    /\ UserOf(cookie) # {}
    /\ i \in DOMAIN inboxes
    /\ {inboxes[i].user_id} # UserOf(cookie)

\* the routes only the owner of the inbox may use
OwnerOnly == {"get_inbox", "update_inbox", "delete_inbox"}

\* C1: a request with a session bound to user A to GET, PUT or DELETE
\* /inboxes/{id} or to GET /inboxes/{id}/messages, for an inbox owned by
\* another user B, is answered 401 Unauthorized, returns nothing of the
\* inbox and leaves the store unchanged.
C1_CrossUserUnauthorized ==
    [][(\/ last'.op \in OwnerOnly /\ CrossUser(last'.cookie, last'.id)
        \/ last'.op = "get_messages" /\ CrossUser(session, last'.id))
       => /\ last'.status = 401
          /\ last'.body = Msg("Unauthorized")
          /\ StoreUnchanged]_vars

\* C2: a user creation whose email is held by a stored user when it commits
\* is answered 400 "Email already exists", also when it passed the
\* existence check before the other creation committed.
C2_DuplicateEmailRaceFree ==
    [][\A p \in Pending, salt \in Salts :
         (/\ p.pc = "insert"
          /\ UsersByEmail(p.data.email) # {}
          /\ (CreateUserInsert(p, salt) \/ RegisterInsert(p, salt)))
         => /\ last'.status = 400
            /\ last'.body = Msg("Email already exists")]_vars

\* C3: after DELETE /users/{id} answered 204 the user, the inboxes the user
\* owned and the messages of those inboxes are absent, and every other
\* user, inbox and message is as it was.
C3_DeleteUserCascade ==
    (last.op = "delete_user" /\ last.status = 204) =>
        LET u == last.id
            goneI == {i \in DOMAIN prev.inboxes : prev.inboxes[i].user_id = u}
            goneM == {m \in DOMAIN prev.messages : prev.messages[m].inbox_id \in goneI}
        IN  /\ u \notin DOMAIN users
            /\ \A i \in DOMAIN inboxes : inboxes[i].user_id # u
            /\ \A m \in DOMAIN messages : messages[m].inbox_id \notin goneI
            /\ DOMAIN users = DOMAIN prev.users \ {u}
            /\ DOMAIN inboxes = DOMAIN prev.inboxes \ goneI
            /\ DOMAIN messages = DOMAIN prev.messages \ goneM
            /\ \A x \in DOMAIN users : users[x] = prev.users[x]
            /\ \A i \in DOMAIN inboxes : inboxes[i] = prev.inboxes[i]
            /\ \A m \in DOMAIN messages : messages[m] = prev.messages[m]

\* C4: with a session issued by login for stored user U, GET /account is
\* answered 200 with the id of U.
C4_AccountYieldsLoginIdentity ==
    (/\ last.op = "account"
     /\ prev.session.kind = "signed"
     /\ prev.session.user_id \in DOMAIN prev.users)
    => /\ last.status = 200
       /\ "id" \in DOMAIN last.body
       /\ last.body.id = prev.session.user_id

\* C5: a session issued more than 24 hours ago resolves to no identity.
C5_SessionExpiresAfterOneDay ==
    (session.kind = "signed" /\ session.age > LoginDuration) => current_user = {}

\* C6: a login with an email and a password, where no stored user has the
\* email or the password is not the one the stored digest was made from, is
\* answered 400 "Invalid credentials" and changes neither the session nor
\* the store.
C6_InvalidCredentials ==
    [][\A form \in ValidLoginForms :
         (/\ last'.op = "login"
          /\ \A u \in DOMAIN users :
                users[u].email = form.email => users[u].password.hash[2] # form.password
          /\ Login(form))
         => /\ last'.status = 400
            /\ last'.body = Msg("Invalid credentials")
            /\ session' = session
            /\ StoreUnchanged]_vars

\* C6 witness: every email is held by a stored user, so the login that was
\* refused named a stored user and gave a wrong password.
C6_Witness ==
    /\ last.op = "login"
    /\ last.status = 400
    /\ last.body = Msg("Invalid credentials")
    /\ \A e \in Emails : \E u \in DOMAIN users : users[u].email = e
    /\ session = prev.session

\* C7: logout is answered 200 from any session state and leaves the caller
\* unauthenticated and the store as it was; a second logout is answered 200
\* and changes nothing more, and GET /account is then rejected as
\* unauthenticated: it is answered 401.
C7_LogoutIdempotent ==
    last.op = "logout" =>
        /\ last.status = 200
        /\ current_user = {}
        /\ users = prev.users /\ inboxes = prev.inboxes /\ messages = prev.messages
        /\ logout.status = 200
        /\ logout.session = session
        /\ account.status = 401

\* C8: without a session that resolves to a user, GET, PUT and DELETE
\* /inboxes/{id} on a stored inbox and GET /account are answered 401 and
\* leave the store unchanged.
C8_UnauthenticatedIs401 ==
    [][(\/ /\ last'.op \in OwnerOnly
           /\ last'.id \in DOMAIN inboxes
           /\ UserOf(last'.cookie) = {}
        \/ /\ last'.op = "account"
           /\ current_user = {})
       => /\ last'.status = 401
          /\ StoreUnchanged]_vars

\* C9: POST /users/{id}/inboxes with a non-empty name, for a stored user
\* who has no inbox of that name, is answered 201 and stores exactly one new
\* inbox, owned by that user and carrying that name.
C9_CreateInboxSucceeds ==
    [][(/\ last'.op = "create_inbox"
        /\ last'.id \in DOMAIN users
        /\ last'.data \in ValidInboxBodies
        /\ \A i \in DOMAIN inboxes :
              inboxes[i].user_id = last'.id => inboxes[i].name # last'.data.name)
       => /\ last'.status = 201
          /\ \E new \in DOMAIN inboxes' \ DOMAIN inboxes :
                /\ DOMAIN inboxes' = DOMAIN inboxes \cup {new}
                /\ inboxes'[new].user_id = last'.id
                /\ inboxes'[new].name = last'.data.name
          /\ \A i \in DOMAIN inboxes : inboxes'[i] = inboxes[i]]_vars

\* C10: POST /users/{id}/inboxes with the name of an inbox the user owns
\* when the handler looks the user's inboxes up is answered 400 "Inbox
\* already exists" by that step and stores no inbox.
C10_DuplicateInboxName ==
    [][\A p \in Pending :
         (/\ p.op = "create_inbox"
          /\ p.pc = "inboxes"
          /\ \E i \in DOMAIN inboxes : inboxes[i].user_id = p.id /\ inboxes[i].name = p.data.name
          /\ CreateInboxNames(p))
         => /\ last'.op = "create_inbox"
            /\ last'.status = 400
            /\ last'.body = Msg("Inbox already exists")
            /\ StoreUnchanged
            /\ session' = session]_vars

\* C10 witness: the request was refused as a duplicate when the user's
\* inboxes were looked up, and the inboxes are the ones stored before.
C10_Witness ==
    /\ last.op = "create_inbox"
    /\ last.pc = "inboxes"
    /\ last.status = 400
    /\ last.body = Msg("Inbox already exists")
    /\ last.id \in DOMAIN users
    /\ inboxes = prev.inboxes

\* C11: in every state the stored url of every inbox is {base}/inboxes/{id
\* of the inbox}; no url sent by a client is stored.
C11_UrlDerivedServerSide ==
    \A i \in DOMAIN inboxes : inboxes[i].url = DerivedUrl(i)

\* C12: a request that is answered with an error status (400, 401, 404 or
\* 500) leaves the stored users, inboxes and messages, with all their
\* fields, as they were: the step that answers changes no row, and a row the
\* request had committed before it (the answer is given at the re-read that
\* follows the commit) is not in the store; a failing create_inbox leaves no
\* inbox of its first commit.
C12_ErrorLeavesStore ==
    [][last'.status \in {400, 401, 404, 500} =>
         /\ StoreUnchanged
         /\ \A p \in Pending :
               (p.pc = "to_dict" /\ last'.op = p.op /\ pending' = pending (-) SetToBag({p}))
               => IF p.op \in {"create_user", "register"} THEN p.pid \notin DOMAIN users
                  ELSE IF p.op = "update_user" THEN p.id \notin DOMAIN users
                  ELSE IF p.op = "update_inbox" THEN p.id \notin DOMAIN inboxes
                  ELSE p.pid \notin DOMAIN messages]_vars

\* C12 witness: create_inbox for a stored user reached its insert, failed
\* with 500, and the inboxes are the ones stored before it.
C12_Witness ==
    /\ last.op = "create_inbox"
    /\ last.pc = "insert"
    /\ last.status = 500
    /\ last.body = Msg("IntegrityError")
    /\ last.id \in DOMAIN users
    /\ DOMAIN prev.inboxes # {}
    /\ inboxes = prev.inboxes

\* C13: in every state the user_id of every stored inbox is the id of a
\* stored user and the inbox_id of every stored message is the id of a
\* stored inbox.
C13_NoOrphans ==
    /\ \A i \in DOMAIN inboxes : inboxes[i].user_id \in DOMAIN users
    /\ \A m \in DOMAIN messages : messages[m].inbox_id \in DOMAIN inboxes

\* C14: every entity the running service creates gets an id no stored
\* entity of its kind has: the insert of a user creation whose email no
\* stored user holds, and the insert of a message creation in a stored
\* inbox, store one more row and answer no error, also when the process has
\* created a row before.
C14_FreshIdentifiers ==
    [][/\ \A p \in Pending, salt \in Salts :
            (/\ p.op = "create_user"
             /\ p.pc = "insert"
             /\ UsersByEmail(p.data.email) = {}
             /\ CreateUserInsert(p, salt))
            => /\ last' = last
               /\ Cardinality(DOMAIN users') = Cardinality(DOMAIN users) + 1
       /\ \A p \in Pending :
            (/\ p.op = "create_message"
             /\ p.pc = "insert"
             /\ p.id \in DOMAIN inboxes
             /\ CreateMessageInsert(p))
            => /\ last' = last
               /\ Cardinality(DOMAIN messages') = Cardinality(DOMAIN messages) + 1]_vars

\* C15: a create or update request whose body lacks a required field or
\* gives it empty (username, email, password for users; name for inboxes;
\* email, password for login) is answered 400 and changes neither the store
\* nor the session.
C15_MissingFieldIs400 ==
    [][(\/ /\ last'.op \in {"create_user", "update_user"}
           /\ last'.data \in UserBodies \ ValidUserBodies
        \/ /\ last'.op \in {"create_inbox", "update_inbox"}
           /\ last'.data \in InboxBodies \ ValidInboxBodies
        \/ /\ last'.op = "login"
           /\ last'.data \in LoginForms \ ValidLoginForms)
       => /\ last'.status = 400
          /\ StoreUnchanged
          /\ session' = session]_vars

\* C16: a request addressed to a user id or an inbox id at which nothing is
\* stored (its body well-formed, where its route reads one) is answered 404
\* and leaves the store unchanged.
C16_MissingIs404 ==
    [][(/\ last'.op = "update_user" => last'.data \in ValidUserBodies
        /\ last'.op \in {"create_inbox", "update_inbox"} => last'.data \in ValidInboxBodies
        /\ \/ /\ last'.op \in {"get_user", "update_user", "delete_user", "get_inboxes", "create_inbox"}
              /\ last'.id \notin DOMAIN users
           \/ /\ last'.op \in {"get_inbox", "update_inbox", "delete_inbox", "get_messages", "create_message"}
              /\ last'.id \notin DOMAIN inboxes)
       => (last'.status = 404 /\ StoreUnchanged)]_vars

\* C17: GET /inboxes/{id}/messages sent by the owner of a stored inbox (the
\* session resolves to the owner, or the User-Id header names the owner) is
\* answered 200 with exactly the messages stored in that inbox.
C17_OwnerReadsMessages ==
    [][\A i \in DOMAIN inboxes, header \in HeaderValues :
         (/\ last'.op = "get_messages"
          /\ last'.id = i
          /\ (current_user = {inboxes[i].user_id} \/ header = inboxes[i].user_id)
          /\ GetMessages(i, header))
         => /\ last'.status = 200
            /\ last'.body = [items |-> {message_to_dict(m) : m \in MessagesOf(i)}]]_vars

\* the request answered in `last` carried a session of the user who owned
\* the inbox it addressed when it was answered
SentByOwner ==
    /\ last.id \in DOMAIN prev.inboxes
    /\ last.cookie.kind = "signed"
    /\ last.cookie.user_id \in DOMAIN prev.users
    /\ last.cookie.user_id = prev.inboxes[last.id].user_id

\* C18: DELETE /inboxes/{id} with the session of the inbox's owner is
\* answered 204; afterwards the inbox and the messages that were in it are
\* absent, and the users, the other inboxes and the other messages are as
\* they were.
C18_DeleteInboxCascade ==
    (last.op = "delete_inbox" /\ SentByOwner) =>
        LET goneM == {m \in DOMAIN prev.messages : prev.messages[m].inbox_id = last.id}
        IN  /\ last.status = 204
            /\ users = prev.users
            /\ DOMAIN inboxes = DOMAIN prev.inboxes \ {last.id}
            /\ DOMAIN messages = DOMAIN prev.messages \ goneM
            /\ \A i \in DOMAIN inboxes : inboxes[i] = prev.inboxes[i]
            /\ \A m \in DOMAIN messages : messages[m] = prev.messages[m]

\* no user owns two inboxes of one name
NameUniquePerUser(I) ==
    \A a, b \in DOMAIN I : (I[a].user_id = I[b].user_id /\ I[a].name = I[b].name) => a = b

\* C19: no step leaves a user with two inboxes of one name, and a rename
\* by the owner to the name of another inbox of the same owner is answered
\* 400 "Inbox already exists", not a store failure.
C19_DuplicateNameIs400 ==
    [][/\ NameUniquePerUser(inboxes) => NameUniquePerUser(inboxes')
       /\ (/\ last'.op = "update_inbox"
           /\ last'.id \in DOMAIN inboxes
           /\ last'.data \in ValidInboxBodies
           /\ UserOf(last'.cookie) = {inboxes[last'.id].user_id}
           /\ \E j \in DOMAIN inboxes \ {last'.id} :
                 /\ inboxes[j].user_id = inboxes[last'.id].user_id
                 /\ inboxes[j].name = last'.data.name)
          => /\ last'.status = 400
             /\ last'.body = Msg("Inbox already exists")]_vars

\* C20: no step of a PUT /inboxes/{id}, whatever keys its body has, changes
\* the user_id of a stored inbox: an inbox stored before and after a step
\* has the same user_id.
C20_OwnerImmutable ==
    [][\A i \in DOMAIN inboxes \cap DOMAIN inboxes' :
         inboxes'[i].user_id = inboxes[i].user_id]_vars

\* C21: PUT /users/{id} on a stored user with username, email and password
\* is not refused for its email when no other user holds the email (the
\* user's own current email included); it is answered 400 "Email already
\* exists" when another user holds it; the emails stay unique.
C21_UpdateUserOwnEmail ==
    [][/\ EmailUnique(users) => EmailUnique(users')
       /\ \A p \in Pending :
            (/\ p.op = "update_user"
             /\ p.pc = "email"
             /\ p.id \in DOMAIN users
             /\ UpdateUserEmail(p))
            => IF UsersByEmail(p.data.email) \subseteq {p.id}
               THEN last' = last
               ELSE /\ last'.status = 400
                    /\ last'.body = Msg("Email already exists")
                    /\ StoreUnchanged]_vars

====
